---- MODULE Spec2Model ----
(***************************************************************************)
(* tmux-sessionizer: directory discovery (Config::find_dirs and            *)
(* Config::find_dir_recursive) in its two forms, the rayon fan-out of      *)
(* src/config.rs and the sequential iterator chain of src/main.rs, and the *)
(* session-command sequence of main().                                     *)
(*                                                                         *)
(* A file name is a sequence of one-character strings, a path a sequence   *)
(* of file names from the filesystem root: /h/.cfg is                      *)
(* << <<"h">>, <<".","c","f","g">> >>.  Option<T> is <<>> for None and     *)
(* <<x>> for Some(x).                                                      *)
(***************************************************************************)
EXTENDS Integers, Sequences, FiniteSets, TLC

VARIABLES
    config,      \* Config {settings: Settings {default_depth}, paths: Vec<SearchPath>}
    unreadable,  \* directories whose read_dir() returns Err (permissions, deleted)
    pc,          \* main(): position in the function body
    found,       \* main(): what config.find_dirs() returned
    selected,    \* main(): run_finder's Option<PathBuf>
    dir_name,    \* main(): get_dir_name(&selected_path)
    has,         \* main(): what tmux::has_session returned
    tmux_log,    \* the tmux commands issued so far, in order
    env_TMUX,    \* result of std::env::var("TMUX").is_ok(), once read
    roots,       \* config.rs find_dirs: per configured root, the state of its closure
    jobs,        \* config.rs find_dir_recursive: the flat_map closures, by <<root, path>>
    par_result   \* config.rs find_dirs: what the call returned (or that it panicked)

vars == <<config, unreadable, pc, found, selected, dir_name, has, tmux_log,
          env_TMUX, roots, jobs, par_result>>

mainVars == <<pc, found, selected, dir_name, has, tmux_log, env_TMUX>>
parVars == <<roots, jobs, par_result>>

\* Bounds of the model.
MaxRoots == 2
MaxDepth == 2

---------------------------------------------------------------------------
\* Option<T>

None == <<>>
Some(x) == <<x>>
unwrap_or(o, default) == IF o = None THEN default ELSE o[1]

\* Sequence helpers.
Last(s) == s[Len(s)]
Front(s) == SubSeq(s, 1, Len(s) - 1)
Range(s) == {s[i] : i \in 1..Len(s)}
IsPrefix(s, t) == Len(s) <= Len(t) /\ SubSeq(t, 1, Len(s)) = s
RECURSIVE Flat(_)
Flat(ss) == IF ss = <<>> THEN <<>> ELSE Head(ss) \o Flat(Tail(ss))
RECURSIVE SeqsOver(_, _)
SeqsOver(S, n) ==
    IF n = 0 THEN {<<>>}
    ELSE LET shorter == SeqsOver(S, n - 1)
         IN shorter \cup {Append(s, x) : s \in {t \in shorter : Len(t) = n - 1}, x \in S}

---------------------------------------------------------------------------
\* The environment: file names, the directory tree, the process environment.

n_h == <<"h">>
n_t == <<"t">>
n_a == <<"a">>
n_c == <<"c">>
n_f == <<"f">>
n_l == <<"l">>
n_k == <<"k">>
n_g == <<"g">>
n_x == <<"x">>
n_dot_b == <<".", "b">>
n_dot_cfg == <<".", "c", "f", "g">>
n_missing == <<"m", "i", "s", "s">>
n_tilde == <<"~">>
n_var_U == <<"$", "U">>
n_var_W == <<"$", "W">>
n_dotdot == <<".", ".">>

HomeDir == <<n_h>>
p_t == <<n_h, n_t>>
p_a == <<n_h, n_t, n_a>>
p_c == <<n_h, n_t, n_a, n_c>>
p_b == <<n_h, n_t, n_dot_b>>
p_g == <<n_h, n_t, n_dot_b, n_g>>
p_cfg == <<n_h, n_dot_cfg>>
p_k == <<n_h, n_dot_cfg, n_k>>

\* One item of the ReadDir iterator: io::Result<DirEntry>.
OkEntry(name, ft) == [ok |-> TRUE, name |-> name, ft |-> ft]
ErrEntry == [ok |-> FALSE, name |-> <<>>, ft |-> "err"]

\* What the operating system lists for each directory.  /h/t holds two
\* directories (one hidden), a regular file and a symbolic link to a directory;
\* the listing of /h/.cfg ends in an I/O error.
Listing(path) ==
    CASE path = <<>>   -> <<OkEntry(n_h, "dir")>>
      [] path = HomeDir -> <<OkEntry(n_t, "dir"), OkEntry(n_dot_cfg, "dir")>>
      [] path = p_t    -> <<OkEntry(n_a, "dir"), OkEntry(n_f, "file"),
                            OkEntry(n_dot_b, "dir"), OkEntry(n_l, "symlink")>>
      [] path = p_a    -> <<OkEntry(n_c, "dir")>>
      [] path = p_b    -> <<OkEntry(n_g, "dir")>>
      [] path = p_cfg  -> <<OkEntry(n_k, "dir"), ErrEntry>>
      [] OTHER         -> <<>>

Dirs == {<<>>, HomeDir, p_t, p_a, p_c, p_b, p_g, p_cfg, p_k}

\* Path::exists
exists(path) == path \in Dirs \/ path \in {Append(p_t, n_f), Append(p_t, n_l)}

\* Path::read_dir: Err for what is no directory and for what cannot be opened.
read_dir(path) ==
    IF path \in Dirs /\ path \notin unreadable
    THEN [ok |-> TRUE, entries |-> Listing(path)]
    ELSE [ok |-> FALSE, entries |-> <<>>]

\* The process environment shellexpand reads: $W is set, $U is not.
EnvVar(name) == IF name = n_var_W THEN Some(p_t) ELSE None

\* Result<T, E>
Ok(v) == <<"Ok", v>>
Err(e) == <<"Err", e>>
is_ok(r) == r[1] = "Ok"

\* shellexpand::full on a configured path: a leading ~ becomes the home
\* directory, a leading $VAR its value; an unset variable is a LookupError.
shellexpand_full(s) ==
    IF s = <<>> THEN Ok(s)
    ELSE IF Head(s) = n_tilde THEN Ok(HomeDir \o Tail(s))
    ELSE IF Head(Head(s)) = "$"
         THEN LET v == EnvVar(Head(s))
              IN IF v = None THEN Err(Head(s)) ELSE Ok(v[1] \o Tail(s))
    ELSE Ok(s)

---------------------------------------------------------------------------
\* src/config.rs: SearchPath

Simple(s) == [variant |-> "Simple", path |-> s]
Complex(path, depth, sh) ==
    [variant |-> "Complex", path |-> path, depth |-> depth, show_hidden |-> sh]

\* SearchPath::depth with the explicit depth of a Complex root ignored.
depth_of_default_only(sp, default) == default

\* SearchPath::depth
depth_of(sp, default) ==
    IF sp.variant = "Simple" THEN default ELSE unwrap_or(sp.depth, default)

\* SearchPath::path
path_of(sp) == sp.path

\* SearchPath::show_hidden
show_hidden(sp) ==
    IF sp.variant = "Simple" THEN FALSE ELSE unwrap_or(sp.show_hidden, FALSE)

\* SearchPath::expand
expand(sp) ==
    LET e == shellexpand_full(sp.path)
    IN IF ~is_ok(e) THEN Err(<<"EnvError", e[2]>>)
       ELSE IF sp.variant = "Simple" THEN Ok(Simple(e[2]))
       ELSE Ok(Complex(e[2], sp.depth, sp.show_hidden))

\* Path::file_name: None for the filesystem root and for a path ending in "..".
file_name(path) ==
    IF path = <<>> \/ Last(path) = n_dotdot THEN None ELSE Some(Last(path))

\* is_hidden_path looking at the first component of the path, not the last.
is_hidden_path_first_component(path) == path # <<>> /\ path[1][1] = "."

\* is_hidden_path
is_hidden_path(path) ==
    LET n == file_name(path) IN IF n = None THEN FALSE ELSE n[1][1] = "."

\* fn is_dir(de: &DirEntry): DirEntry::file_type does not follow symlinks.
is_dir(de) == de.ft = "dir"

\* Iterator::map_while(Result::ok): the items before the first Err.
RECURSIVE map_while_ok(_)
map_while_ok(entries) ==
    IF entries = <<>> \/ ~Head(entries).ok THEN <<>>
    ELSE <<Head(entries)>> \o map_while_ok(Tail(entries))

\* Iterator::flatten over io::Result items: the Ok items.
flatten(entries) == SelectSeq(entries, LAMBDA e : e.ok)

\* The filters of config.rs find_dir_recursive (lines 136-143).
retained(path, entries, sh) ==
    SelectSeq(SelectSeq(map_while_ok(entries), is_dir),
              LAMBDA e : IF sh THEN TRUE ELSE ~is_hidden_path(Append(path, e.name)))

---------------------------------------------------------------------------
\* src/main.rs: SearchPath (no show_hidden field), the sequential walk.

\* serde reads the same document into main.rs's types: an unknown key of the
\* Complex variant is ignored.
main_SearchPath(sp) ==
    IF sp.variant = "Simple" THEN [variant |-> "Simple", path |-> sp.path]
    ELSE [variant |-> "Complex", path |-> sp.path, depth |-> sp.depth]

main_expand(sp) ==
    LET e == shellexpand_full(sp.path)
    IN IF ~is_ok(e) THEN Err(<<"EnvError", e[2]>>)
       ELSE IF sp.variant = "Simple" THEN Ok([variant |-> "Simple", path |-> e[2]])
       ELSE Ok([variant |-> "Complex", path |-> e[2], depth |-> sp.depth])

\* The closure of main.rs pushing the entry after its subtree.
main_entry_paths_post_order(p, sub) == sub \o <<p>>

\* What one flat_map closure of main.rs contributes, given the walk of its subtree.
main_entry_paths(p, sub) == <<p>> \o sub

\* Config::find_dir_recursive of main.rs.  panic: read_dir().unwrap() failed
\* somewhere in the walk; calls: the invocations made, as <<path, depth, max_depth>>.
RECURSIVE main_find_dir_recursive(_, _, _)
main_find_dir_recursive(path, depth, max_depth) ==
    LET rd == read_dir(path)
        call == <<path, depth, max_depth>>
    IN IF ~rd.ok THEN [panic |-> TRUE, paths |-> <<>>, calls |-> <<call>>]
       ELSE
         LET es == SelectSeq(flatten(rd.entries), is_dir)
             each ==
               [i \in 1..Len(es) |->
                  LET p == Append(path, es[i].name)
                  IN IF depth < max_depth
                     THEN LET sub == main_find_dir_recursive(p, depth + 1, max_depth)
                          IN [panic |-> sub.panic,
                              paths |-> main_entry_paths(p, sub.paths),
                              calls |-> sub.calls]
                     ELSE [panic |-> FALSE, paths |-> <<p>>, calls |-> <<>>]]
         IN [panic |-> \E i \in 1..Len(es) : each[i].panic,
             paths |-> Flat([i \in 1..Len(es) |-> each[i].paths]),
             calls |-> <<call>> \o Flat([i \in 1..Len(es) |-> each[i].calls])]

\* The effective depth main.rs find_dirs passes for one expanded root (lines 132, 144).
main_depth(sp, default_depth) ==
    IF sp.variant = "Simple" THEN default_depth ELSE unwrap_or(sp.depth, default_depth)

\* The order in which main.rs find_dirs appends the roots' walks (lines 124-149).
main_concat(blocks) == Flat(blocks)

\* Config::find_dirs of main.rs.  blocks[i] is what the walk of root i
\* contributed; calls are the walks started, with their roots.
main_find_dirs(cfg) ==
    LET n == Len(cfg.paths)
        ex == [i \in 1..n |-> main_expand(main_SearchPath(cfg.paths[i]))]
        bad == {i \in 1..n : ~is_ok(ex[i])}
    IN IF bad # {}
       THEN [status |-> "Err", msg |-> ex[CHOOSE i \in bad : \A j \in bad : i <= j][2],
             paths |-> <<>>, blocks |-> <<>>, calls |-> <<>>]
       ELSE
         LET walk ==
               [i \in 1..n |->
                  IF ~exists(ex[i][2].path)
                  THEN [panic |-> FALSE, paths |-> <<>>, calls |-> <<>>]
                  ELSE main_find_dir_recursive(
                           ex[i][2].path, 1, main_depth(ex[i][2], cfg.settings.default_depth))]
             panicked == \E i \in 1..n : walk[i].panic
         IN [status |-> IF panicked THEN "panic" ELSE "Ok",
             msg |-> IF panicked THEN <<"read_dir">> ELSE <<>>,
             paths |-> IF panicked THEN <<>>
                       ELSE main_concat([i \in 1..n |-> walk[i].paths]),
             blocks |-> IF panicked THEN <<>> ELSE [i \in 1..n |-> walk[i].paths],
             calls |-> Flat([i \in 1..n |->
                              [k \in 1..Len(walk[i].calls) |-> <<i>> \o walk[i].calls[k]]])]

---------------------------------------------------------------------------
\* The configurations and environments explored.

raw_t == <<n_tilde, n_t>>
raw_W == <<n_var_W>>
raw_cfg == <<n_h, n_dot_cfg>>
raw_missing == <<n_h, n_missing>>
raw_U == <<n_var_U, n_x>>

SearchPaths ==
    {Simple(p) : p \in {raw_t, raw_cfg, raw_missing, raw_U}}
      \cup {Complex(raw_W, Some(d), Some(TRUE)) : d \in 0..MaxDepth}
      \cup {Complex(raw_W, None, None), Complex(raw_cfg, Some(0), Some(FALSE))}

Configs ==
    {[settings |-> [default_depth |-> d], paths |-> ps] :
        d \in 0..MaxDepth, ps \in SeqsOver(SearchPaths, MaxRoots)}

InitEnv ==
    /\ config \in Configs
    /\ unreadable \in {{}, {p_a}}

---------------------------------------------------------------------------
\* src/main.rs: main()

NL == <<"\n">>

\* get_dir_name without the replace.
get_dir_name_verbatim(dir) == file_name(dir)

\* get_dir_name: the base name with every '.' replaced by '_'; the expect()
\* panics when the path has no file name.
get_dir_name(dir) ==
    LET n == file_name(dir)
    IN IF n = None THEN None
       ELSE Some([i \in 1..Len(n[1]) |-> IF n[1][i] = "." THEN "_" ELSE n[1][i]])

\* The lines the picker can print: one of the candidates it was given, or "/".
PickerLines == {Append(p, NL) : p \in Range(found.paths) \cup {<<>>}}

InitMain ==
    /\ pc = "find_dirs"
    /\ found = [status |-> "none", msg |-> <<>>, paths |-> <<>>, blocks |-> <<>>,
                calls |-> <<>>]
    /\ selected = None
    /\ dir_name = None
    /\ has = None
    /\ tmux_log = <<>>
    /\ env_TMUX = None

\* let paths = config.find_dirs().unwrap();
MainFindDirs ==
    /\ pc = "find_dirs"
    /\ found' = main_find_dirs(config)
    /\ pc' = IF found'.status = "Ok" THEN "run_finder" ELSE "panic"
    /\ UNCHANGED <<config, unreadable, selected, dir_name, has, tmux_log, env_TMUX>>
    /\ UNCHANGED parVars

\* run_finder, picker exited with success: its output without the last byte.
RunFinderSelect ==
    /\ pc = "run_finder"
    /\ \E stdout \in PickerLines \cup {<<>>} :
          IF Len(stdout) = 0
          THEN pc' = "panic" /\ selected' = selected
          ELSE pc' = "get_dir_name" /\ selected' = Some(Front(stdout))
    /\ UNCHANGED <<config, unreadable, found, dir_name, has, tmux_log, env_TMUX>>
    /\ UNCHANGED parVars

\* run_finder, picker exited without success: None, and main returns.
RunFinderCancel ==
    /\ pc = "run_finder"
    /\ selected' = None
    /\ pc' = "done"
    /\ UNCHANGED <<config, unreadable, found, dir_name, has, tmux_log, env_TMUX>>
    /\ UNCHANGED parVars

\* let dir_name = get_dir_name(&selected_path);
GetDirName ==
    /\ pc = "get_dir_name"
    /\ dir_name' = get_dir_name(selected[1])
    /\ pc' = IF dir_name' = None THEN "panic" ELSE "has_session"
    /\ UNCHANGED <<config, unreadable, found, selected, has, tmux_log, env_TMUX>>
    /\ UNCHANGED parVars

\* tmux::has_session(&dir_name): whether `tmux has-session -t name` succeeded.
HasSession ==
    /\ pc = "has_session"
    /\ \E status_success \in BOOLEAN :
          /\ has' = Some(status_success)
          /\ pc' = IF ~status_success THEN "new_session" ELSE "switch_or_attach"
    /\ tmux_log' = Append(tmux_log, <<"has-session", dir_name[1]>>)
    /\ UNCHANGED <<config, unreadable, found, selected, dir_name, env_TMUX>>
    /\ UNCHANGED parVars

\* tmux::new_session(&dir_name, path_str)
NewSession ==
    /\ pc = "new_session"
    /\ tmux_log' = Append(tmux_log, <<"new-session", dir_name[1], selected[1]>>)
    /\ pc' = "switch_or_attach"
    /\ UNCHANGED <<config, unreadable, found, selected, dir_name, has, env_TMUX>>
    /\ UNCHANGED parVars

\* std::env::var("TMUX").is_ok(): tmux::switch(&dir_name)
Switch ==
    /\ pc = "switch_or_attach"
    /\ env_TMUX' = Some(TRUE)
    /\ tmux_log' = Append(tmux_log, <<"switch", dir_name[1]>>)
    /\ pc' = "done"
    /\ UNCHANGED <<config, unreadable, found, selected, dir_name, has>>
    /\ UNCHANGED parVars

\* otherwise: tmux::attach(&dir_name)
Attach ==
    /\ pc = "switch_or_attach"
    /\ env_TMUX' = Some(FALSE)
    /\ tmux_log' = Append(tmux_log, <<"attach", dir_name[1]>>)
    /\ pc' = "done"
    /\ UNCHANGED <<config, unreadable, found, selected, dir_name, has>>
    /\ UNCHANGED parVars

\* Command::output / spawn fails (no tmux binary): the expect() panics and
\* the command is not issued.
TmuxSpawnFails ==
    /\ pc \in {"has_session", "new_session", "switch_or_attach"}
    /\ pc' = "panic"
    /\ UNCHANGED <<config, unreadable, found, selected, dir_name, has, tmux_log, env_TMUX>>
    /\ UNCHANGED parVars

NextMain ==
    \/ MainFindDirs
    \/ RunFinderSelect
    \/ RunFinderCancel
    \/ GetDirName
    \/ HasSession
    \/ NewSession
    \/ Switch
    \/ Attach
    \/ TmuxSpawnFails

---------------------------------------------------------------------------
\* src/config.rs: Config::find_dirs and Config::find_dir_recursive on the
\* rayon pool.  Every closure of the two parallel iterators is a task that
\* any worker may run at any time after the iterator that yields it exists;
\* a closure that recursed returns when the closures of its children have.

Panicked(msg) == [status |-> "panic", msg |-> msg, paths |-> <<>>]

\* if max_depth == 0 { return vec![path.to_path_buf()]; }
depth_zero_result(path) == <<path>>

\* The recursion test off by one.
descends_inclusive(depth, max_depth) == depth <= max_depth

\* if depth < max_depth { recurse } else { vec![path] }
descends(depth, max_depth) == depth < max_depth

\* once(path.clone()).chain(find_dir_recursive(..)): what the closure of entry
\* p returns, given the collected walk of p.
entry_result(p, sub) == <<p>> \o sub

\* The closures of root i that are children of directory `parent`.
ChildrenOf(js, i, parent) == {k \in DOMAIN js : k[1] = i /\ Front(k[2]) = parent}

\* The closures find_dir_recursive(path, depth) creates: one per retained entry.
Spawn(i, path, es, depth) ==
    [k \in {<<i, Append(path, es[n].name)>> : n \in 1..Len(es)} |->
        [st |-> "queued", depth |-> depth, acc |-> <<>>]]

\* The closure of entry p of root i returns r: flat_map appends r to what the
\* enclosing find_dir_recursive collects, and that call returns once all its
\* closures have, handing its vector to the closure (or root) that called it.
RECURSIVE deliver(_, _, _, _)
deliver(s, i, p, r) ==
    LET js == [s.jobs EXCEPT ![<<i, p>>].st = "done"]
        parent == Front(p)
        alldone == \A k \in ChildrenOf(js, i, parent) : js[k].st = "done"
    IN IF parent = s.roots[i].path
       THEN [roots |-> [s.roots EXCEPT ![i].out = @ \o r,
                                       ![i].st = IF alldone THEN "done" ELSE @],
             jobs |-> js]
       ELSE LET acc == js[<<i, parent>>].acc \o r
                js2 == [js EXCEPT ![<<i, parent>>].acc = acc]
            IN IF alldone
               THEN deliver([roots |-> s.roots, jobs |-> js2], i, parent,
                            entry_result(parent, acc))
               ELSE [roots |-> s.roots, jobs |-> js2]

\* paths.flatten().collect(): the roots' vectors, in the order of self.paths.
collect(rs) == Flat([i \in 1..Len(rs) |-> rs[i].out])

InitPar ==
    /\ roots = [i \in 1..Len(config.paths) |->
                  [st |-> "todo", path |-> <<>>, show_hidden |-> FALSE,
                   max_depth |-> 0, out |-> <<>>]]
    /\ jobs = <<>>
    /\ par_result = [status |-> "running", msg |-> <<>>, paths |-> <<>>]

\* The closure of find_dirs for root i (lines 164-172), up to the point
\* where find_dir_recursive has created the closures of the root's entries.
ParRoot(i) ==
    /\ par_result.status = "running"
    /\ roots[i].st = "todo"
    /\ LET e == expand(config.paths[i])
           path == path_of(e[2])
           max_depth == depth_of(e[2], config.settings.default_depth)
           sh == show_hidden(e[2])
           rd == read_dir(path)
           es == retained(path, rd.entries, sh)
           called == [roots[i] EXCEPT !.path = path, !.show_hidden = sh,
                                      !.max_depth = max_depth]
       IN IF ~is_ok(e)
          THEN par_result' = Panicked(<<"unwrap", e[2]>>) /\ UNCHANGED <<roots, jobs>>
          ELSE IF ~exists(path)
          THEN par_result' = Panicked(<<"Path does not exist", path>>)
               /\ UNCHANGED <<roots, jobs>>
          ELSE IF max_depth = 0
          THEN /\ roots' = [roots EXCEPT ![i] =
                              [called EXCEPT !.st = "done", !.out = depth_zero_result(path)]]
               /\ UNCHANGED <<jobs, par_result>>
          ELSE IF ~rd.ok
          THEN par_result' = Panicked(<<"read_dir", path>>) /\ UNCHANGED <<roots, jobs>>
          ELSE /\ roots' = [roots EXCEPT ![i] =
                              [called EXCEPT !.st = IF es = <<>> THEN "done" ELSE "walking"]]
               /\ jobs' = Spawn(i, path, es, 1) @@ jobs
               /\ UNCHANGED par_result
    /\ UNCHANGED <<config, unreadable>>
    /\ UNCHANGED mainVars

\* The flat_map closure for one retained entry (lines 144-158).
ParEntry(k) ==
    /\ par_result.status = "running"
    /\ jobs[k].st = "queued"
    /\ LET i == k[1]
           p == k[2]
           depth == jobs[k].depth
           rd == read_dir(p)
           es == retained(p, rd.entries, roots[i].show_hidden)
           s == [roots |-> roots, jobs |-> jobs]
           returned(r) == LET t == deliver(s, i, p, r)
                          IN roots' = t.roots /\ jobs' = t.jobs /\ UNCHANGED par_result
       IN IF ~descends(depth, roots[i].max_depth)
          THEN returned(<<p>>)
          ELSE IF ~rd.ok
          THEN par_result' = Panicked(<<"read_dir", p>>) /\ UNCHANGED <<roots, jobs>>
          ELSE IF es = <<>>
          THEN returned(entry_result(p, <<>>))
          ELSE /\ jobs' = Spawn(i, p, es, depth + 1) @@ [jobs EXCEPT ![k].st = "waiting"]
               /\ UNCHANGED <<roots, par_result>>
    /\ UNCHANGED <<config, unreadable>>
    /\ UNCHANGED mainVars

\* Ok(paths.flatten().collect())
ParCollect ==
    /\ par_result.status = "running"
    /\ \A i \in DOMAIN roots : roots[i].st = "done"
    /\ par_result' = [status |-> "Ok", msg |-> <<>>, paths |-> collect(roots)]
    /\ UNCHANGED <<roots, jobs, config, unreadable>>
    /\ UNCHANGED mainVars

NextPar ==
    \/ \E i \in DOMAIN roots : ParRoot(i)
    \/ \E k \in DOMAIN jobs : ParEntry(k)
    \/ ParCollect

Init == InitEnv /\ InitMain /\ InitPar

Next == NextMain \/ NextPar

Spec == Init /\ [][Next]_vars

\* main() alone.
SpecMain == Init /\ [][NextMain]_vars

\* The two find_dirs run one after the other on the same configuration and
\* the same directory tree: main.rs's, then the library's (as
\* benches/benchmark.rs calls it).  They share no state.
NextDiscovery ==
    \/ MainFindDirs
    \/ \E i \in DOMAIN roots : found.status # "none" /\ ParRoot(i)
    \/ \E k \in DOMAIN jobs : found.status # "none" /\ ParEntry(k)
    \/ found.status # "none" /\ ParCollect
SpecDiscovery == Init /\ [][NextDiscovery]_vars

---------------------------------------------------------------------------
\* Vocabulary of the properties, stated on the directory tree itself.

NRoots == Len(config.paths)
Hidden(name) == name[1] = "."
StrictlyBelow(root, p) == IsPrefix(root, p) /\ Len(p) > Len(root)
DepthBelow(root, p) == Len(p) - Len(root)

\* Section 4.3: explicit depth else Settings.default_depth; explicit
\* show_hidden else false; a Simple root has neither.
EffectiveDepth(sp) ==
    IF sp.variant = "Complex" /\ sp.depth # None THEN sp.depth[1]
    ELSE config.settings.default_depth
EffectiveVisibility(sp) ==
    sp.variant = "Complex" /\ sp.show_hidden = Some(TRUE)

\* The directory a configured path names: ~ is the home directory, $W is /h/t.
Expanded(raw) ==
    CASE raw = raw_t -> p_t
      [] raw = raw_W -> p_t
      [] OTHER -> raw
Expandable(raw) == raw # raw_U

\* The directories below root within d levels that the visibility admits:
\* with hidden entries off, none reached through a hidden name below the root.
Eligible(root, sh, d) ==
    {p \in Dirs : /\ StrictlyBelow(root, p)
                  /\ DepthBelow(root, p) <= d
                  /\ sh \/ \A j \in (Len(root) + 1)..Len(p) : ~Hidden(p[j])}

\* The contribution of root i to the sequential result.
Block(i) == found.blocks[i]

ParDone == par_result.status # "running"
SeqDone == found.status # "none"

---------------------------------------------------------------------------
\* C1: a configured root whose expanded path does not exist never makes
\* find_dirs fail: neither find_dirs ends abnormally because of a missing
\* root, and when every root expands and every directory read can be listed,
\* find_dirs returns Ok with exactly the candidates of the roots that exist.
C1_MissingRootNeverFails ==
    /\ par_result.status = "panic" => par_result.msg[1] # "Path does not exist"
    /\ found.status = "panic" => found.msg[1] # "Path does not exist"
    /\ ( /\ ParDone
         /\ unreadable = {}
         /\ \A i \in 1..NRoots : Expandable(config.paths[i].path) )
       => par_result.status = "Ok"

\* C2: when the expansion of a configured root fails, find_dirs returns an
\* Err carrying the expansion error, with no candidate list, and does not
\* panic instead.
C2_ExpansionFailureIsErr ==
    /\ par_result.status = "panic" => par_result.msg[1] # "unwrap"
    /\ ( /\ SeqDone
         /\ \E i \in 1..NRoots : ~Expandable(config.paths[i].path) )
       => found.status = "Err" /\ found.paths = <<>>

\* C3: a directory that cannot be listed, the root or any descendant, counts
\* as a level with no entries: the walk completes and the failure never ends
\* the run.
C3_ListingFailureIsEmptyLevel ==
    /\ par_result.status = "panic" => par_result.msg[1] # "read_dir"
    /\ found.status = "panic" => found.msg[1] # "read_dir"

\* C4: for every root whose effective max_depth is 0 the walk returns exactly
\* the one-element list holding the root path itself, and no child of the
\* root is yielded.
C4_DepthZeroYieldsRoot ==
    /\ par_result.status = "Ok" =>
          \A i \in 1..NRoots :
              roots[i].max_depth = 0 => roots[i].out = <<roots[i].path>>
    /\ found.status = "Ok" =>
          \A i \in 1..NRoots :
              ( /\ EffectiveDepth(config.paths[i]) = 0
                /\ exists(Expanded(config.paths[i].path)) )
              => Block(i) = <<Expanded(config.paths[i].path)>>

\* C7: the parallel find_dirs and the sequential find_dirs return the same
\* set of paths for the same tree and the same roots, under every
\* interleaving of the workers.
C7_ParallelEqualsSequential ==
    (par_result.status = "Ok" /\ found.status = "Ok") =>
        /\ Range(par_result.paths) = Range(found.paths)
        /\ \A i \in 1..NRoots :
              /\ Range(roots[i].out) = Range(Block(i))
              /\ Cardinality(Range(roots[i].out)) = Len(roots[i].out)

---------------------------------------------------------------------------
\* The walk main.rs find_dirs started for root i: <<i, path, 1, max_depth>>.
SeqWalked(i) == {c \in Range(found.calls) : c[1] = i /\ c[3] = 1}

\* What the claims on one finished walk of `root` with budget d > 0 ask of
\* its output `out`: below the root, directories only, within d levels.
WithinBudget(root, d, out) ==
    \A p \in Range(out) :
        p \in Dirs /\ StrictlyBelow(root, p) /\ DepthBelow(root, p) <= d

\* ... complete for the visibility sh, and closed under ancestors below the root.
CompleteAndClosed(root, sh, d, out) ==
    /\ Eligible(root, sh, d) \subseteq Range(out)
    /\ \A p \in Range(out) :
          \A n \in (Len(root) + 1)..(Len(p) - 1) : SubSeq(p, 1, n) \in Range(out)

\* C5: a root walked with max_depth = d > 0 is never in the output; every
\* returned path is a directory between 1 and d levels below the root; every
\* eligible directory within d levels is returned, with every directory
\* between the root and it; a closure recurses only at a depth < d, so the
\* depth counter starts at 1 and never exceeds d.  For both walks.
C5_DepthBudget ==
    /\ \A k \in DOMAIN jobs :
          LET r == roots[k[1]]
          IN /\ jobs[k].depth = DepthBelow(r.path, k[2])
             /\ 1 <= jobs[k].depth /\ jobs[k].depth <= r.max_depth
             /\ ChildrenOf(jobs, k[1], k[2]) # {} => jobs[k].depth < r.max_depth
    /\ \A i \in 1..NRoots :
          roots[i].max_depth > 0 =>
              /\ WithinBudget(roots[i].path, roots[i].max_depth, roots[i].out)
              /\ par_result.status = "Ok" =>
                    CompleteAndClosed(roots[i].path, roots[i].show_hidden,
                                      roots[i].max_depth, roots[i].out)
    /\ \A c \in Range(found.calls) : c[4] > 0 => (1 <= c[3] /\ c[3] <= c[4])
    /\ found.status = "Ok" =>
          \A i \in 1..NRoots : \A c \in SeqWalked(i) :
              c[4] > 0 =>
                  /\ WithinBudget(c[2], c[4], Block(i))
                  /\ CompleteAndClosed(c[2], EffectiveVisibility(config.paths[i]),
                                       c[4], Block(i))

\* Both walks finished; one root was walked two levels deep and returned
\* /h/t/a/c, another root on /h/t was walked one level deep.
C5_Witness ==
    /\ par_result.status = "Ok" /\ found.status = "Ok"
    /\ \E i, j \in 1..NRoots :
          /\ roots[i].max_depth = 2 /\ p_c \in Range(roots[i].out)
          /\ p_c \in Range(Block(i))
          /\ roots[j].max_depth = 1 /\ roots[j].path = p_t /\ roots[j].out # <<>>

\* C6 as stated: with show_hidden = false no returned path has a base name
\* starting with '.', and nothing below a hidden directory is returned, for
\* every max_depth including 0 and every root, a hidden root included.
C6_NoHiddenAnywhere ==
    par_result.status = "Ok" =>
        \A i \in 1..NRoots :
            ~roots[i].show_hidden =>
                \A p \in Range(roots[i].out) : \A j \in 1..Len(p) : ~Hidden(p[j])

\* C6 amended: the filter acts on the entries below the root, never on the
\* root path.  With show_hidden = false no returned path has a name starting
\* with '.' below the root; with show_hidden = true every hidden directory
\* within the depth budget is returned; a root with max_depth 0 is returned
\* as it is, hidden or not.
C6_HiddenFilteredBelowRoot ==
    \A i \in 1..NRoots :
        roots[i].st # "todo" =>
            /\ ~roots[i].show_hidden =>
                  \A p \in Range(roots[i].out) :
                      \A j \in (Len(roots[i].path) + 1)..Len(p) : ~Hidden(p[j])
            /\ (par_result.status = "Ok" /\ roots[i].show_hidden
                                        /\ roots[i].max_depth > 0) =>
                  \A p \in Dirs :
                      ( /\ StrictlyBelow(roots[i].path, p)
                        /\ DepthBelow(roots[i].path, p) <= roots[i].max_depth
                        /\ Hidden(Last(p)) )
                      => p \in Range(roots[i].out)
            /\ (par_result.status = "Ok" /\ roots[i].max_depth = 0) =>
                  roots[i].out = <<roots[i].path>>

\* One root on /h/t walked two levels with hidden entries off (so /h/t/.b was
\* listed and dropped), another walked with hidden entries on that returned
\* /h/t/.b/g, and the hidden root /h/.cfg returned at depth 0.
C6_Witness ==
    /\ par_result.status = "Ok"
    /\ \E i, j \in 1..NRoots :
          /\ ~roots[i].show_hidden /\ roots[i].max_depth = 2
          /\ roots[i].path = p_t /\ p_c \in Range(roots[i].out)
          /\ roots[j].show_hidden /\ p_g \in Range(roots[j].out)

\* The number of candidates the roots before root i contributed.
RECURSIVE BlockStart(_)
BlockStart(i) == IF i = 1 THEN 0 ELSE BlockStart(i - 1) + Len(Block(i - 1))

\* Position of the entry named n in the listing of its directory.
ListedAt(p) ==
    LET l == Listing(Front(p))
    IN CHOOSE m \in 1..Len(l) : l[m].ok /\ l[m].name = Last(p)

\* C8: the sequential output is the pre-order of the walk: the roots'
\* contributions come in the configured order, each one contiguous; inside a
\* contribution a directory comes before everything returned below it, what is
\* returned below it follows it without interruption, and the entries of one
\* directory come in the order the directory lists them.
C8_SequentialPreOrder ==
    found.status = "Ok" =>
        /\ Len(found.paths) = BlockStart(NRoots + 1)
        /\ \A i \in 1..NRoots :
              LET ps == Block(i)
              IN /\ \A k \in 1..Len(ps) : found.paths[BlockStart(i) + k] = ps[k]
                 /\ \A a, b \in 1..Len(ps) :
                       a < b =>
                           /\ ~IsPrefix(ps[b], ps[a])
                           /\ StrictlyBelow(ps[a], ps[b]) =>
                                 \A m \in (a + 1)..(b - 1) : StrictlyBelow(ps[a], ps[m])
                           /\ Front(ps[a]) = Front(ps[b]) =>
                                 ListedAt(ps[a]) < ListedAt(ps[b])

\* Two roots contributed, the first /h/t/a, /h/t/a/c, /h/t/.b, /h/t/.b/g.
C8_Witness ==
    /\ found.status = "Ok"
    /\ NRoots = 2
    /\ Block(1) = <<p_a, p_c, p_b, p_g>>
    /\ Len(Block(2)) >= 2

SessionName(path) ==
    [n \in 1..Len(Last(path)) |-> IF Last(path)[n] = "." THEN "_" ELSE Last(path)[n]]

Cmd(k) == tmux_log[k][1]

\* C10: no tmux command without a selection; has-session is the first
\* command; new-session is issued only after has-session found no session, as
\* the second command; switch (TMUX set) or attach (TMUX unset) is issued once,
\* last, after new-session where one was due; main returns normally after a
\* selection only with that command issued; every command names the session
\* after the selected path.
C10_SessionCommandOrder ==
    /\ selected = None => tmux_log = <<>>
    /\ Len(tmux_log) >= 1 => Cmd(1) = "has-session" /\ has # None
    /\ \A k \in 1..Len(tmux_log) :
          /\ tmux_log[k][2] = SessionName(selected[1])
          /\ Cmd(k) = "has-session" => k = 1
          /\ Cmd(k) = "new-session" =>
                k = 2 /\ has = Some(FALSE) /\ tmux_log[k][3] = selected[1]
          /\ Cmd(k) \in {"switch", "attach"} =>
                /\ k = Len(tmux_log) /\ pc = "done"
                /\ k = IF has = Some(FALSE) THEN 3 ELSE 2
                /\ has = Some(FALSE) => Cmd(2) = "new-session"
                /\ (Cmd(k) = "switch") = (env_TMUX = Some(TRUE))
                /\ (Cmd(k) = "attach") = (env_TMUX = Some(FALSE))
    /\ (pc = "done" /\ selected # None) =>
          (tmux_log # <<>> /\ Cmd(Len(tmux_log)) \in {"switch", "attach"})

\* /h/t/.b was selected, no session "_b" existed, TMUX was set: has-session,
\* new-session, switch.
C10_Witness ==
    /\ pc = "done"
    /\ selected = Some(p_b)
    /\ Len(tmux_log) = 3
    /\ Cmd(3) = "switch"
    /\ tmux_log[1][2] = <<"_", "b">>
====
